---- MODULE Spec2Model ----
(***************************************************************************)
(* Model of "Non Linear Dimensionality Reduction/KDTree-rec.py": the       *)
(* k-d tree construction kdtree and the two query functions one_NN_rec and *)
(* kNN_rec, exactly as the file defines them.                              *)
(*                                                                         *)
(* A numpy array of points is a sequence of rows, a row is a sequence of   *)
(* integer coordinates.  Python indices are 0-based, TLA+ sequences are    *)
(* 1-based: axis a of the code is component a+1 of a row.                  *)
(* A Euclidean distance d is represented by its square d*d, which orders   *)
(* distances the same way and is an integer on integer coordinates.        *)
(***************************************************************************)
EXTENDS Integers, Sequences, FiniteSets, TLC

\* Largest number of rows of a generated input array.
MaxPts == 4
\* Largest n_neighbors a k-nearest query is issued with.
MaxN == 2

\* Python's None: the empty tree, and the value of a bare "return".
\* (Markers are records so that they compare with nodes and results.)
None == [marker |-> "None"]
\* The tree variable before kdtree has been called.
NotBuilt == [marker |-> "NotBuilt"]
\* A query slot in which no call has been made yet.
NotRun == [marker |-> "NotRun"]
\* A call that returned normally / the error kind the specification names.
NoException == "NoException"
EmptyTreeError == "EmptyTreeError"

\* The data points of the docstring example of one_NN_rec, and its query.
ExamplePoints ==
  << <<1, 3>>, <<1, 8>>, <<2, 2>>, <<2, 10>>, <<3, 6>>, <<4, 1>>, <<5, 4>>,
     <<6, 8>>, <<7, 4>>, <<7, 7>>, <<8, 2>>, <<8, 5>>, <<9, 9>> >>
ExampleQuery == <<4, 8>>

\* Two-dimensional rows the generated inputs are drawn from: they contain
\* pairs that tie on axis 0, pairs that tie on axis 1 and a triple with
\* pairwise distinct coordinates; a row may occur repeatedly in an input.
Rows2 == { <<0, 0>>, <<1, 2>>, <<2, 1>>, <<1, 0>>, <<0, 2>> }
\* Three-dimensional rows, so that the axis cycles modulo 3 as well.
Rows3 == { <<0, 1, 2>>, <<1, 1, 0>>, <<1, 0, 2>> }
\* A three-dimensional input deep enough for the axis to wrap around.
Deep3 ==
  << <<3, 1, 4>>, <<1, 5, 9>>, <<2, 6, 5>>, <<3, 5, 8>>, <<9, 7, 9>>,
     <<3, 2, 3>>, <<8, 4, 6>>, <<2, 6, 4>>, <<3, 3, 8>> >>

SeqsUpTo(S, n) == UNION { [1..m -> S] : m \in 0..n }

\* Every input array a behaviour may start from (the empty array included).
Inputs ==
  SeqsUpTo(Rows2, MaxPts) \cup SeqsUpTo(Rows3, MaxPts) \cup {ExamplePoints, Deep3}

\* The query points of dimension k.
Queries(k) ==
  IF k = 3 THEN { <<0, 1, 2>>, <<0, 0, 0>>, <<3, 4, 5>> }
           ELSE { <<0, 0>>, <<1, 2>>, <<2, 0>>, ExampleQuery }

\* points.shape[1] (an empty array is given two columns).
Dim(points) == IF Len(points) = 0 THEN 2 ELSE Len(points[1])

(***************************************************************************)
(* kdtree                                                                  *)
(***************************************************************************)

\* points[:, axis]
Column(points, axis) == [i \in 1..Len(points) |-> points[i][axis + 1]]

SetMin(S) == CHOOSE m \in S : \A x \in S : m <= x

\* ndarray.argsort() with numpy's default kind, which is not a stable sort:
\* the result is an index order with ascending keys, and the order of equal
\* keys is left to the sort, so every such order is a possible result.
RECURSIVE ArgsortFrom(_, _)
ArgsortFrom(keys, I) ==
  IF I = {} THEN { <<>> }
  ELSE LET m == SetMin({ keys[i] : i \in I })
       IN UNION { { <<i>> \o r : r \in ArgsortFrom(keys, I \ {i}) } :
                  i \in { j \in I : keys[j] = m } }

\* No sort at all: the rows stay in the order of the input.
argsortIdentity(keys) == { [i \in DOMAIN keys |-> i] }

argsort(keys) == ArgsortFrom(keys, DOMAIN keys)

\* points[idx]: the rows of points in the order of the index array idx.
Take(points, idx) == [i \in 1..Len(idx) |-> points[idx[i]]]

\* The upper instead of the lower middle: (n - 1) // 2.
MedianBelow(n) == (n - 1) \div 2

\* A pivot at the first third instead of the middle: n // 3.
MedianThird(n) == n \div 3

\* median = points.shape[0] // 2
Median(n) == n \div 2

\* points[:median]
LeftSlice(sorted, median) == SubSeq(sorted, 1, median)

\* A right slice that starts one row late: points[median + 2 :].
RightSliceLate(sorted, median) == SubSeq(sorted, median + 3, Len(sorted))

\* points[median + 1 :]
RightSlice(sorted, median) == SubSeq(sorted, median + 2, Len(sorted))

\* The children split on the axis of their parent.
NextAxisStuck(axis, k) == axis

\* (axis+1)%k
NextAxis(axis, k) == (axis + 1) % k

Node(location, left_child, right_child) ==
  [location |-> location, left_child |-> left_child, right_child |-> right_child]

\* kdtree(points, axis): the set of trees the call can return, one for each
\* order argsort can leave equal keys in, at every level of the recursion.
RECURSIVE kdtree(_, _)
kdtree(points, axis) ==
  IF Len(points) = 0 THEN { None }
  ELSE LET k == Len(points[1])
       IN UNION {
            LET sorted == Take(points, idx)
                median == Median(Len(sorted))
            IN { Node(sorted[median + 1], l, r) :
                   l \in kdtree(LeftSlice(sorted, median), NextAxis(axis, k)),
                   r \in kdtree(RightSlice(sorted, median), NextAxis(axis, k)) } :
            idx \in argsort(Column(points, axis)) }

\* The locations of the nodes of t, node first, then left, then right.
RECURSIVE Locations(_)
Locations(t) ==
  IF t = None THEN <<>>
  ELSE <<t.location>> \o Locations(t.left_child) \o Locations(t.right_child)

\* The square of the Euclidean distance of the rows p and q.
RECURSIVE SumSq(_, _, _)
SumSq(p, q, i) ==
  IF i = 0 THEN 0 ELSE (p[i] - q[i]) * (p[i] - q[i]) + SumSq(p, q, i - 1)

Dist2(p, q) == SumSq(p, q, Len(p))

\* A (distance, point) pair as the query functions are documented to hold.
Pair(p, query) == [dist2 |-> Dist2(p, query), location |-> p]

\* The pairs of the sequence ps in ascending order of distance.
RECURSIVE SortPairsFrom(_, _)
SortPairsFrom(ps, I) ==
  IF I = {} THEN <<>>
  ELSE LET i == CHOOSE c \in I : \A j \in I : ps[c].dist2 <= ps[j].dist2
       IN <<ps[i]>> \o SortPairsFrom(ps, I \ {i})

SortPairs(ps) == SortPairsFrom(ps, DOMAIN ps)

(***************************************************************************)
(* The query functions.  Both bodies are a bare "return": the call returns *)
(* None, raises nothing and leaves every argument as it was passed.  The   *)
(* value of a call records the returned value, the exception, and the tree *)
(* and list objects as they are after the call.                            *)
(***************************************************************************)

\* A query that computes the difference to the query point in place, in the
\* array the node holds: tree.location -= query.
one_NN_rec_inplace(tree, axis, query, neighbor) ==
  [ret |-> None, exc |-> NoException,
   tree |-> IF tree = None THEN None
            ELSE [tree EXCEPT !.location =
                    [i \in DOMAIN query |-> tree.location[i] - query[i]]]]

one_NN_rec(tree, axis, query, neighbor) ==
  [ret |-> None, exc |-> NoException, tree |-> tree]

\* A query that does the first half of its docstring only: the first
\* n_neighbors nodes of the traversal are added in order of distance, and no
\* closer point replaces one of them afterwards.
kNN_rec_fill(tree, axis, query, neighbors, n_neighbors) ==
  LET locs == Locations(tree)
      m == IF Len(locs) < n_neighbors THEN Len(locs) ELSE n_neighbors
  IN [ret |-> m, exc |-> NoException, tree |-> tree,
      neighbors |-> SortPairs(neighbors \o [i \in 1..m |-> Pair(locs[i], query)])]

kNN_rec(tree, axis, query, neighbors, n_neighbors) ==
  [ret |-> None, exc |-> NoException, tree |-> tree, neighbors |-> neighbors]

(***************************************************************************)
(* State machine: one array is built into a tree once, then queried any    *)
(* number of times.                                                        *)
(***************************************************************************)
VARIABLES points, tree, query, nn, knn

vars == <<points, tree, query, nn, knn>>

NoResults == [n \in 1..MaxN |-> NotRun]

Init ==
  /\ points \in Inputs
  /\ tree = NotBuilt
  /\ query \in Queries(Dim(points))
  /\ nn = NotRun
  /\ knn = NoResults

\* tree = kdtree(points, 0)
Build ==
  /\ tree = NotBuilt
  /\ tree' \in kdtree(points, 0)
  /\ UNCHANGED <<points, query, nn, knn>>

\* The caller turns to another query point.
NewQuery ==
  /\ tree # NotBuilt
  /\ \E q \in Queries(Dim(points)) :
       /\ q # query
       /\ query' = q
  /\ nn' = NotRun
  /\ knn' = NoResults
  /\ UNCHANGED <<points, tree>>

\* nearest: one_NN_rec(tree, 0, query, None)
Nearest ==
  /\ tree # NotBuilt
  /\ LET r == one_NN_rec(tree, 0, query, None)
     IN /\ nn' = [ret |-> r.ret, exc |-> r.exc]
        /\ tree' = r.tree
  /\ UNCHANGED <<points, query, knn>>

\* kNearest: neighbors = []; kNN_rec(tree, 0, query, neighbors, n)
KNearest ==
  /\ tree # NotBuilt
  /\ \E n \in 1..MaxN :
       LET r == kNN_rec(tree, 0, query, <<>>, n)
       IN /\ knn' = [knn EXCEPT ![n] =
                       [ret |-> r.ret, exc |-> r.exc, neighbors |-> r.neighbors]]
          /\ tree' = r.tree
  /\ UNCHANGED <<points, query, nn>>

Next == Build \/ NewQuery \/ Nearest \/ KNearest

Spec == Init /\ [][Next]_vars

(***************************************************************************)
(* Observations of a tree and of an input, used to state the properties.   *)
(***************************************************************************)

\* How often the row p occurs in the sequence s.
Count(p, s) == Cardinality({ i \in DOMAIN s : s[i] = p })

Range(s) == { s[i] : i \in DOMAIN s }

\* The sequences s and t hold the same rows, each the same number of times.
SameMultiset(s, t) ==
  /\ Len(s) = Len(t)
  /\ \A p \in Range(s) \cup Range(t) : Count(p, s) = Count(p, t)

\* Below the node t, which lies at depth d of a tree of dimension k, every
\* node at depth e is split on axis e mod k: on that coordinate no row of the
\* left subtree is greater, and no row of the right subtree smaller, than the
\* node's own.
RECURSIVE SplitOrdered(_, _, _)
SplitOrdered(t, d, k) ==
  \/ t = None
  \/ LET a == (d % k) + 1
     IN /\ \A p \in Range(Locations(t.left_child)) : p[a] <= t.location[a]
        /\ \A p \in Range(Locations(t.right_child)) : p[a] >= t.location[a]
        /\ SplitOrdered(t.left_child, d + 1, k)
        /\ SplitOrdered(t.right_child, d + 1, k)

\* The number of nodes on the longest path from the node t downwards.
RECURSIVE Depth(_)
Depth(t) ==
  IF t = None THEN 0
  ELSE LET l == Depth(t.left_child)
           r == Depth(t.right_child)
       IN 1 + (IF l >= r THEN l ELSE r)

Built == tree # NotBuilt

(***************************************************************************)
(* C3: in the tree kdtree(points, 0) returns, for inputs with or without   *)
(* repeated rows, the node at depth d splits on axis d mod k: every row of *)
(* its left subtree is <= the node on that coordinate and every row of its *)
(* right subtree is >= it.                                                 *)
(***************************************************************************)
C3_SplitInvariant == Built => SplitOrdered(tree, 0, Dim(points))

\* A built tree with a repeated row, whose nodes reach depth 2 (three levels)
\* so that a node below the root has a non-empty subtree to be ordered.
C3_Witness ==
  /\ Built
  /\ Depth(tree) >= 3
  /\ \E i, j \in DOMAIN points : i # j /\ points[i] = points[j]
  /\ SplitOrdered(tree, 0, Dim(points))

(***************************************************************************)
(* C4: the node locations of the built tree are the input rows, each as    *)
(* often as the input holds it: as many nodes as rows, none dropped and    *)
(* none duplicated, also when the input repeats a row.                     *)
(***************************************************************************)
C4_SameMultiset == Built => SameMultiset(Locations(tree), points)

\* A built tree of an input that holds one row twice and another row once.
C4_Witness ==
  /\ Built
  /\ Len(points) >= 3
  /\ \E i, j \in DOMAIN points : i # j /\ points[i] = points[j]
  /\ \E i, j \in DOMAIN points : points[i] # points[j]
  /\ Len(Locations(tree)) = Len(points)

\* The rows of s ascend (weakly) on coordinate axis.
Ascending(s, axis) ==
  \A i, j \in DOMAIN s : i < j => s[i][axis + 1] <= s[j][axis + 1]

\* t is a node as the median rule prescribes for kdtree(pts, axis): for some
\* arrangement s of pts ascending on coordinate axis, its location is the
\* row of s at index len // 2, its left child a k-d tree of the rows before
\* that index and its right child one of the rows after it, both for axis
\* (axis + 1) mod k.
MedianRule(t, pts, axis) ==
  LET n == Len(pts)
      k == Len(pts[1])
      m == n \div 2
  IN \E idx \in argsort(Column(pts, axis)) :
       LET s == Take(pts, idx)
       IN /\ Ascending(s, axis)
          /\ SameMultiset(s, pts)
          /\ t.location = s[m + 1]
          /\ t.left_child \in kdtree(SubSeq(s, 1, m), (axis + 1) % k)
          /\ t.right_child \in kdtree(SubSeq(s, m + 2, n), (axis + 1) % k)

(***************************************************************************)
(* C5: on a non-empty input kdtree(points, axis) returns a node whose      *)
(* location is the row at index len(points) // 2 of the input sorted       *)
(* ascending by coordinate axis, whose left child is kdtree of the sorted  *)
(* rows before that index and whose right child is kdtree of the sorted    *)
(* rows after it, both built with axis (axis + 1) mod k.  It is stated of  *)
(* the tree each Build step installs (axis 0) and, at that step, of every  *)
(* tree kdtree can return for the same rows and any other start axis.      *)
(***************************************************************************)
C5_MedianRule ==
  [][(Build /\ Len(points) > 0) =>
       /\ MedianRule(tree', points, 0)
       /\ \A axis \in 0..(Dim(points) - 1) :
            \A t \in kdtree(points, axis) : MedianRule(t, points, axis)]_vars

\* A built tree of an even number (at least four) of rows, where the lower
\* and the upper middle differ, with both children present.
C5_Witness ==
  /\ Built
  /\ Len(points) >= 4
  /\ Len(points) % 2 = 0
  /\ tree.left_child # None
  /\ tree.right_child # None
  /\ Len(Locations(tree.left_child)) = Len(points) \div 2

\* p comes no later than q when rows are compared as full coordinate vectors.
VecLeq(p, q) ==
  \/ p = q
  \/ \E i \in DOMAIN p : /\ p[i] < q[i]
                         /\ \A j \in 1..(i - 1) : p[j] = q[j]

\* p comes no later than q by coordinate axis, ties broken by the full vector.
LexLeq(p, q, axis) ==
  \/ p[axis + 1] < q[axis + 1]
  \/ p[axis + 1] = q[axis + 1] /\ VecLeq(p, q)

\* The rows pts[i], i in I, in that order: it depends on the rows only, not
\* on the positions they have in pts.
RECURSIVE LexSortFrom(_, _, _)
LexSortFrom(pts, I, axis) ==
  IF I = {} THEN <<>>
  ELSE LET i == CHOOSE c \in I : \A j \in I : LexLeq(pts[c], pts[j], axis)
       IN <<pts[i]>> \o LexSortFrom(pts, I \ {i}, axis)

LexSort(pts, axis) == LexSortFrom(pts, DOMAIN pts, axis)

\* The tree of the median rule when ties on the splitting axis are broken by
\* comparing full coordinate vectors: one tree for all orders of the rows.
RECURSIVE LexTree(_, _)
LexTree(pts, axis) ==
  IF Len(pts) = 0 THEN None
  ELSE LET k == Len(pts[1])
           s == LexSort(pts, axis)
           m == Len(s) \div 2
       IN [location |-> s[m + 1],
           left_child |-> LexTree(SubSeq(s, 1, m), (axis + 1) % k),
           right_child |-> LexTree(SubSeq(s, m + 2, Len(s)), (axis + 1) % k)]

\* No two rows that are sorted together share the coordinate they are sorted
\* on: not in pts on coordinate axis, and not in the slices left and right of
\* the median on the next axis, and so on down the recursion.
RECURSIVE NoSplitTies(_, _)
NoSplitTies(pts, axis) ==
  \/ Len(pts) = 0
  \/ LET k == Len(pts[1])
         s == LexSort(pts, axis)
         m == Len(s) \div 2
     IN /\ \A i, j \in DOMAIN pts : i # j => pts[i][axis + 1] # pts[j][axis + 1]
        /\ NoSplitTies(SubSeq(s, 1, m), (axis + 1) % k)
        /\ NoSplitTies(SubSeq(s, m + 2, Len(s)), (axis + 1) % k)

(***************************************************************************)
(* C6 as claimed: the built tree is the same for every order of the same   *)
(* rows, also when rows share the value of a splitting coordinate, because *)
(* ties on the splitting axis are broken by comparing the full coordinate  *)
(* vectors: the built tree is the tree of the lexicographic tie-break.     *)
(***************************************************************************)
C6_LexTieBreak == Built => tree = LexTree(points, 0)

(***************************************************************************)
(* C6 amended: the built tree is the same for every order of the same rows *)
(* provided no two rows that are sorted together share the value of the    *)
(* coordinate they are sorted on.                                          *)
(***************************************************************************)
C6_SameTreeWithoutTies ==
  (Built /\ NoSplitTies(points, 0)) => tree = LexTree(points, 0)

\* A built tree of three or more tie-free rows given in another order than
\* the sorted one.
C6_Witness ==
  /\ Built
  /\ Len(points) >= 3
  /\ NoSplitTies(points, 0)
  /\ points # LexSort(points, 0)
  /\ tree = LexTree(points, 0)

\* The squared distances of the rows of pts to q, ascending: a linear scan.
RECURSIVE ScanFrom(_, _, _)
ScanFrom(pts, I, q) ==
  IF I = {} THEN <<>>
  ELSE LET i == CHOOSE c \in I : \A j \in I : Dist2(pts[c], q) <= Dist2(pts[j], q)
       IN <<Dist2(pts[i], q)>> \o ScanFrom(pts, I \ {i}, q)

BruteForce(pts, q) == ScanFrom(pts, DOMAIN pts, q)

MinOf(a, b) == IF a <= b THEN a ELSE b

\* v is a (distance, point) pair.
IsPair(v) == DOMAIN v = {"dist2", "location"}

\* The distances of a neighbors list, in list order.
Dists(ns) == [i \in DOMAIN ns |-> ns[i].dist2]

\* The numbers of the sequence ds in ascending order.
RECURSIVE SortNumsFrom(_, _)
SortNumsFrom(ds, I) ==
  IF I = {} THEN <<>>
  ELSE LET i == CHOOSE c \in I : \A j \in I : ds[c] <= ds[j]
       IN <<ds[i]>> \o SortNumsFrom(ds, I \ {i})

SortNums(ds) == SortNumsFrom(ds, DOMAIN ds)

IsPrefix(a, b) == Len(a) <= Len(b) /\ a = SubSeq(b, 1, Len(a))

(***************************************************************************)
(* C1: for a non-empty input and a query point of its dimension, nearest   *)
(* (one_NN_rec on the tree kdtree built with axis 0) returns a distance    *)
(* equal to the least Euclidean distance from the query to an input row,   *)
(* as a linear scan finds it.                                              *)
(***************************************************************************)
C1_NearestIsBruteForce ==
  (Built /\ Len(points) > 0 /\ nn # NotRun) =>
    /\ nn.exc = NoException
    /\ IsPair(nn.ret)
    /\ nn.ret.dist2 = BruteForce(points, query)[1]

(***************************************************************************)
(* C2: for a non-empty tree and n_neighbors > 0 the neighbors list after   *)
(* kNN_rec is in non-decreasing order of distance, has exactly             *)
(* min(n_neighbors, number of rows) entries, and its distances are the     *)
(* that many smallest distances of a linear scan; n_neighbors above the    *)
(* number of rows yields all rows and no error.                            *)
(***************************************************************************)
C2_KNearestIsBruteForce ==
  (Built /\ Len(points) > 0) =>
    \A n \in 1..MaxN :
      knn[n] # NotRun =>
        LET ds == Dists(knn[n].neighbors)
            m == MinOf(n, Len(points))
        IN /\ knn[n].exc = NoException
           /\ \A i, j \in DOMAIN ds : i < j => ds[i] <= ds[j]
           /\ Len(ds) = m
           /\ ds = SubSeq(BruteForce(points, query), 1, m)

(***************************************************************************)
(* C7: building from zero rows succeeds and returns the empty marker, a    *)
(* tree without nodes, and a nearest or kNearest query against that empty  *)
(* tree fails with EmptyTreeError instead of returning a value.            *)
(***************************************************************************)
C7_EmptyTree ==
  (Built /\ Len(points) = 0) =>
    /\ tree = None
    /\ Len(Locations(tree)) = 0
    /\ nn # NotRun => nn.exc = EmptyTreeError
    /\ \A n \in 1..MaxN : knn[n] # NotRun => knn[n].exc = EmptyTreeError

(***************************************************************************)
(* C8: on the tree of the thirteen example rows the nearest query with the *)
(* query point (4, 8) returns the distance 2.0 (squared: 4) and the point  *)
(* (6, 8).                                                                 *)
(***************************************************************************)
C8_WorkedExample ==
  (Built /\ points = ExamplePoints /\ query = ExampleQuery /\ nn # NotRun) =>
    nn.ret = [dist2 |-> 4, location |-> <<6, 8>>]

C10_QueriesLeaveTree ==
  [][Built =>
       /\ tree' = tree
       /\ points' = points
       /\ (Nearest \/ KNearest) => query' = query
       /\ (query' = query /\ nn # NotRun) => nn' = nn
       /\ \A n \in 1..MaxN :
            (query' = query /\ knn[n] # NotRun) => knn'[n] = knn[n]]_vars

\* A non-empty tree on which both kinds of query have run.
C10_Witness ==
  /\ Built
  /\ tree # None
  /\ tree.left_child # None
  /\ nn # NotRun
  /\ \E n \in 1..MaxN : knn[n] # NotRun
  /\ SameMultiset(Locations(tree), points)

(***************************************************************************)
(* C11: the candidate list of kNearest stays sorted ascending by distance  *)
(* and never holds more than n_neighbors entries; a visited point is added *)
(* while the list has fewer than n_neighbors entries, and a full list      *)
(* gives up its worst entry only to a strictly closer point.  The root of  *)
(* a non-empty tree is visited while the list is still empty, so after the *)
(* query the list holds at least one entry, each entry a point of the tree *)
(* with its distance to the query point.                                   *)
(***************************************************************************)
C11_CandidateList ==
  (Built /\ tree # None) =>
    \A n \in 1..MaxN :
      knn[n] # NotRun =>
        LET ns == knn[n].neighbors
        IN /\ \A i, j \in DOMAIN ns : i < j => ns[i].dist2 <= ns[j].dist2
           /\ Len(ns) <= n
           /\ Len(ns) >= 1
           /\ \A i \in DOMAIN ns :
                \E p \in Range(Locations(tree)) : ns[i] = Pair(p, query)

\* The number of nodes of the tree t.
Size(t) == Len(Locations(t))

\* At every node of t, with m the number of points of its subtree, the left
\* subtree holds m // 2 points and the right subtree m - 1 - m // 2.
RECURSIVE HalvesEverywhere(_)
HalvesEverywhere(t) ==
  \/ t = None
  \/ LET m == Size(t)
     IN /\ Size(t.left_child) = m \div 2
        /\ Size(t.right_child) = m - 1 - (m \div 2)
        /\ Size(t.left_child) >= Size(t.right_child)
        /\ Size(t.left_child) - Size(t.right_child) <= 1
        /\ HalvesEverywhere(t.left_child)
        /\ HalvesEverywhere(t.right_child)

RECURSIVE Pow2(_)
Pow2(h) == IF h = 0 THEN 1 ELSE 2 * Pow2(h - 1)

\* h = floor(log2(n)), for n >= 1.
IsFloorLog2(h, n) == Pow2(h) <= n /\ n < Pow2(h + 1)

(***************************************************************************)
(* C12: in every built tree, at every node whose subtree holds m points    *)
(* the left subtree holds floor(m/2) and the right m - 1 - floor(m/2)      *)
(* points (they differ by at most one, the left never the smaller), so a   *)
(* tree of n >= 1 points has height floor(log2(n)) counted in edges, which *)
(* bounds the depth of any descent from the root.                          *)
(***************************************************************************)
C12_Balanced ==
  Built =>
    /\ HalvesEverywhere(tree)
    /\ tree # None => IsFloorLog2(Depth(tree) - 1, Len(points))

\* A built tree of an even number (four or more) of points, where the two
\* subtree sizes of the root differ, and of height two.
C12_Witness ==
  /\ Built
  /\ Len(points) >= 4
  /\ Len(points) % 2 = 0
  /\ Size(tree.left_child) = Size(tree.right_child) + 1
  /\ Depth(tree) - 1 = 2
====
